---- MODULE Spec2Model ----
(***************************************************************************)
(* Model of the decoding and validation core of terraform-provider-docker: *)
(* sanitizePath, validateContainerName, extractFileFromTar and             *)
(* extractAllFilesFromTar (internal/util_tar.go) and the Read handlers of  *)
(* the docker_file, docker_files and docker_logs data sources.             *)
(*                                                                         *)
(* Strings are sequences of one-character strings; byte strings are        *)
(* sequences of byte values.                                               *)
(***************************************************************************)
EXTENDS Integers, Sequences, FiniteSets, TLC

(***************************************************************************)
(* Bounds of the model                                                     *)
(***************************************************************************)
MaxPathLen == 6
MaxNameLen == 3
MaxEntries == 3
MaxReadEntries == 2
MaxLogLines == 2
MaxLineLen == 41

(***************************************************************************)
(* Program constants                                                       *)
(***************************************************************************)
MaxFileSize == 10485760
DockerLogHeaderSize == 8
DockerLogTimestampSize == 22
DockerLogTimestampEnd == DockerLogHeaderSize + DockerLogTimestampSize
DockerLogMessageStart == DockerLogTimestampEnd + 9
MaxScanTokenSize == 65536

VARIABLES
    path,        \* argument of the sanitizePath call under study
    sanitized,   \* what sanitizePath returned for it
    name,        \* argument of the validateContainerName call under study
    validated,   \* what validateContainerName returned for it
    tr,          \* the tar.Reader: the archive stream and how far it was read
    files,       \* the map extractAllFilesFromTar is building
    exPc,        \* position of extractAllFilesFromTar: idle, loop, returned
    extracted,   \* what extractAllFilesFromTar returned
    op,          \* the data source whose Read is running: file, files, logs
    pc,          \* position of the Read handler
    timestamps,  \* data.Timestamps of the logs data source
    calls,       \* the requests made to the transport, in order
    stream,      \* the stream the transport returned: its state, its closes
    data,        \* the handler's local model struct (Stat, File, Files, Logs)
    resp,        \* the response: diagnostics and the state that was set
    scanner,     \* the bufio.Scanner over the log stream
    logLines,    \* the records decoded so far by the logs read
    rawLine,     \* argument line of the processLogLine call under study
    logOptions,  \* its argument logOptions
    processed    \* what processLogLine returned for them

pureVars    == <<path, sanitized, name, validated>>
extractVars == <<tr, files, exPc, extracted>>
readVars    == <<op, pc, timestamps, calls, stream, data, resp, scanner,
                 logLines>>
lineVars    == <<rawLine, logOptions, processed>>
vars == <<path, sanitized, name, validated, tr, files, exPc, extracted,
          op, pc, timestamps, calls, stream, data, resp, scanner, logLines,
          rawLine, logOptions, processed>>

(***************************************************************************)
(* Strings                                                                 *)
(***************************************************************************)
PathChars == {"a", "b", "c", "/", "."}
NameChars == {"a", "Z", "9", "_", ".", "-", " ", "\n"}

StringsUpTo(chars, n) == UNION {[1..k -> chars] : k \in 0..n}

Paths == StringsUpTo(PathChars, MaxPathLen)
Names == StringsUpTo(NameChars, MaxNameLen)

\* strings.HasPrefix
HasPrefix(s, prefix) ==
    /\ Len(s) >= Len(prefix)
    /\ SubSeq(s, 1, Len(prefix)) = prefix

\* strings.Contains
Contains(s, substr) ==
    \E i \in 1..(Len(s) - Len(substr) + 1) :
        SubSeq(s, i, i + Len(substr) - 1) = substr

\* strings.TrimPrefix
TrimPrefix(s, prefix) ==
    IF HasPrefix(s, prefix) THEN SubSeq(s, Len(prefix) + 1, Len(s)) ELSE s

(***************************************************************************)
(* filepath.Clean, as the library computes it: one pass over the bytes of  *)
(* the path with an output buffer `out`, a read index r and the index      *)
(* `dotdot` below which the output may not be backtracked.                 *)
(***************************************************************************)
\* case out.w > dotdot: drop the last element of the output
RECURSIVE Backtrack(_, _, _)
Backtrack(out, w, dotdot) ==
    IF w > dotdot /\ out[w + 1] # "/"
    THEN Backtrack(out, w - 1, dotdot)
    ELSE SubSeq(out, 1, w)

\* the end of the path element that starts at r
RECURSIVE ElementEnd(_, _)
ElementEnd(p, r) ==
    IF r <= Len(p) /\ p[r] # "/" THEN ElementEnd(p, r + 1) ELSE r

RECURSIVE CleanLoop(_, _, _, _, _)
CleanLoop(p, rooted, r, out, dotdot) ==
    LET n == Len(p) IN
    IF r > n THEN out
    ELSE IF p[r] = "/"
        THEN CleanLoop(p, rooted, r + 1, out, dotdot)
    ELSE IF p[r] = "." /\ (r = n \/ p[r + 1] = "/")
        THEN CleanLoop(p, rooted, r + 1, out, dotdot)
    ELSE IF p[r] = "." /\ p[r + 1] = "." /\ (r + 1 = n \/ p[r + 2] = "/")
        THEN IF Len(out) > dotdot
             THEN CleanLoop(p, rooted, r + 2,
                            Backtrack(out, Len(out) - 1, dotdot), dotdot)
             ELSE IF ~rooted
             THEN LET o2 == (IF Len(out) > 0 THEN out \o <<"/">> ELSE out)
                            \o <<".", ".">>
                  IN  CleanLoop(p, rooted, r + 2, o2, Len(o2))
             ELSE CleanLoop(p, rooted, r + 2, out, dotdot)
    ELSE LET sep  == (rooted /\ Len(out) # 1) \/ (~rooted /\ Len(out) # 0)
             e    == ElementEnd(p, r)
             o2   == (IF sep THEN out \o <<"/">> ELSE out)
                     \o SubSeq(p, r, e - 1)
         IN  CleanLoop(p, rooted, e, o2, dotdot)

Clean(p) ==
    IF p = <<>> THEN <<".">>
    ELSE LET rooted == p[1] = "/"
             out    == IF rooted
                       THEN CleanLoop(p, TRUE, 2, <<"/">>, 1)
                       ELSE CleanLoop(p, FALSE, 1, <<>>, 0)
         IN  IF out = <<>> THEN <<".">> ELSE out

(***************************************************************************)
(* sanitizePath                                                            *)
(***************************************************************************)
ErrEmptyPath     == "path cannot be empty"
ErrPathTraversal == "path traversal detected"
NoError          == "nil"
NotCalled        == [ok |-> FALSE, value |-> <<>>, err |-> "not called"]

Failure(e)  == [ok |-> FALSE, value |-> <<>>, err |-> e]
Success(v)  == [ok |-> TRUE,  value |-> v,    err |-> NoError]

\* sanitizePath with the substring test of line 331 dropped: only the
\* "../" prefix is looked for
sanitizePath_PrefixOnly(p) ==
    IF p = <<>> THEN Failure(ErrEmptyPath)
    ELSE LET cleaned == Clean(p) IN
         IF HasPrefix(cleaned, <<".", ".", "/">>)
         THEN Failure(ErrPathTraversal)
         ELSE Success(TrimPrefix(cleaned, <<"/">>))

\* sanitizePath without the TrimPrefix of line 336
sanitizePath_NoTrim(p) ==
    IF p = <<>> THEN Failure(ErrEmptyPath)
    ELSE LET cleaned == Clean(p) IN
         IF Contains(cleaned, <<".", ".">>)
               \/ HasPrefix(cleaned, <<".", ".", "/">>)
         THEN Failure(ErrPathTraversal)
         ELSE Success(cleaned)

\* sanitizePath without the filepath.Clean of line 328
sanitizePath_NoClean(p) ==
    IF p = <<>> THEN Failure(ErrEmptyPath)
    ELSE LET cleaned == p IN
         IF Contains(cleaned, <<".", ".">>)
               \/ HasPrefix(cleaned, <<".", ".", "/">>)
         THEN Failure(ErrPathTraversal)
         ELSE Success(TrimPrefix(cleaned, <<"/">>))

sanitizePath(p) ==
    IF p = <<>> THEN Failure(ErrEmptyPath)
    ELSE LET cleaned == Clean(p) IN
         IF Contains(cleaned, <<".", ".">>)
               \/ HasPrefix(cleaned, <<".", ".", "/">>)
         THEN Failure(ErrPathTraversal)
         ELSE Success(TrimPrefix(cleaned, <<"/">>))

(***************************************************************************)
(* validateContainerName                                                   *)
(***************************************************************************)
ErrEmptyName     == "container name cannot be empty"
ErrInvalidFormat == "invalid container name format"

Lower == {"a"}
Upper == {"Z"}
Digit == {"9"}

\* the character classes [a-zA-Z0-9] and [a-zA-Z0-9_.-] of the pattern
HeadClass == Lower \cup Upper \cup Digit
TailClass == Lower \cup Upper \cup Digit \cup {"_", ".", "-"}

\* regexp.MatchString(`^[a-zA-Z0-9][a-zA-Z0-9_.-]*$`, s): the automaton of
\* the pattern run over s from position i; st = 0 before the first
\* character has been matched, 1 inside the starred class.  `$` without the
\* multi-line flag matches at the end of the text only.
RECURSIVE MatchFrom(_, _, _)
MatchFrom(s, i, st) ==
    IF i > Len(s) THEN st = 1
    ELSE IF st = 0 THEN s[i] \in HeadClass /\ MatchFrom(s, i + 1, 1)
    ELSE s[i] \in TailClass /\ MatchFrom(s, i + 1, 1)

MatchString(s) == MatchFrom(s, 1, 0)

\* validateContainerName testing the first character only
validateContainerName_PrefixOnly(n) ==
    IF n = <<>> THEN Failure(ErrEmptyName)
    ELSE IF HasPrefix(n, <<".">>) \/ HasPrefix(n, <<"-">>)
    THEN Failure(ErrInvalidFormat)
    ELSE Success(<<>>)

validateContainerName(n) ==
    IF n = <<>> THEN Failure(ErrEmptyName)
    ELSE IF ~MatchString(n) THEN Failure(ErrInvalidFormat)
    ELSE Success(<<>>)

(***************************************************************************)
(* The archive stream read through a tar.Reader.  An entry of the stream   *)
(* is its header (name, type flag, declared size), the number of body      *)
(* bytes the stream really holds for it (avail), and whether the header    *)
(* block decodes (hdrOk).  Body bytes are counted, not stored.             *)
(***************************************************************************)
TypeReg     == "0"
TypeSymlink == "2"
TypeDir     == "5"

EntryNames == {"a", "b", "c"}

Entry(n, t, sz, av, ok) ==
    [name |-> n, typeflag |-> t, size |-> sz, avail |-> av, hdrOk |-> ok]

\* entries whose header decodes and whose body is complete; the reader
\* takes the body of a header-only type (directory, symlink) to be empty
\* whatever size its header declares
WellFormedEntries(names) ==
    {Entry(n, TypeReg, sz, sz, TRUE) :
        n \in names, sz \in {0, MaxFileSize, MaxFileSize + 1}}
    \cup {Entry(n, TypeDir, sz, 0, TRUE) :
        n \in names, sz \in {0, MaxFileSize + 1}}
    \cup {Entry(n, TypeSymlink, 0, 0, TRUE) : n \in names}

\* entries at which a stream can break off: a body cut short, or a header
\* block that does not decode
BrokenEntries(names) ==
    {Entry(n, TypeReg, sz, sz - 1, TRUE) :
        n \in names, sz \in {1, MaxFileSize, MaxFileSize + 1}}
    \cup {Entry("a", TypeReg, 0, 0, FALSE)}

\* the streams of at most n entries; nothing follows a broken entry
Archives(names, n) ==
    UNION {[1..k -> WellFormedEntries(names)] : k \in 0..n}
    \cup UNION {{Append(good, bad) :
                    good \in [1..(k - 1) -> WellFormedEntries(names)],
                    bad \in BrokenEntries(names)} : k \in 1..n}

\* tar.NewReader(file): pos headers were consumed, bodyRead[i] bytes of
\* the body of entry i were handed to the caller
NewReader(archive) ==
    [entries |-> archive, pos |-> 0,
     bodyRead |-> [i \in 1..Len(archive) |-> 0]]

NoReader == NewReader(<<>>)

ErrEOF           == "EOF"
ErrHeader        == "archive/tar: invalid tar header"
ErrUnexpectedEOF == "unexpected EOF"
ErrFileTooLarge  == "file too large"

NilHeader   == [Name |-> "", Typeflag |-> "", Size |-> 0]
NilContent  == [present |-> FALSE, len |-> 0]
NilFileInfo == [Header |-> NilHeader, Content |-> NilContent]

\* (*tar.Reader).Next
TarNext(r) ==
    IF r.pos >= Len(r.entries)
    THEN [hdr |-> NilHeader, err |-> ErrEOF, r |-> r]
    ELSE LET e == r.entries[r.pos + 1] IN
         IF ~e.hdrOk
         THEN [hdr |-> NilHeader, err |-> ErrHeader, r |-> r]
         ELSE [hdr |-> [Name |-> e.name, Typeflag |-> e.typeflag,
                        Size |-> e.size],
               err |-> NoError,
               r   |-> [r EXCEPT !.pos = @ + 1]]

\* io.ReadAll(r) on the current entry of the reader
ReadAll(r) ==
    LET e == r.entries[r.pos]
        n == IF e.avail < e.size THEN e.avail ELSE e.size
        r2 == [r EXCEPT !.bodyRead[r.pos] = n]
    IN  IF e.avail < e.size
        THEN [buf |-> NilContent, err |-> ErrUnexpectedEOF, r |-> r2]
        ELSE [buf |-> [present |-> TRUE, len |-> n], err |-> NoError,
              r |-> r2]

(***************************************************************************)
(* extractFileFromTar                                                      *)
(***************************************************************************)
\* extractFileFromTar comparing with >= at line 382
extractFileFromTar_AtLeast(r) ==
    LET nx == TarNext(r) IN
    IF nx.err = ErrEOF
    THEN [fileInfo |-> NilFileInfo, err |-> ErrEOF, r |-> nx.r]
    ELSE IF nx.err # NoError
    THEN [fileInfo |-> NilFileInfo, err |-> nx.err, r |-> nx.r]
    ELSE IF nx.hdr.Typeflag # TypeReg
    THEN [fileInfo |-> [Header |-> nx.hdr, Content |-> NilContent],
          err |-> NoError, r |-> nx.r]
    ELSE IF nx.hdr.Size >= MaxFileSize
    THEN [fileInfo |-> NilFileInfo, err |-> ErrFileTooLarge, r |-> nx.r]
    ELSE LET rd == ReadAll(nx.r) IN
         IF rd.err # NoError
         THEN [fileInfo |-> NilFileInfo, err |-> rd.err, r |-> rd.r]
         ELSE [fileInfo |-> [Header |-> nx.hdr, Content |-> rd.buf],
               err |-> NoError, r |-> rd.r]

\* extractFileFromTar without the size test of line 382
extractFileFromTar_NoLimit(r) ==
    LET nx == TarNext(r) IN
    IF nx.err = ErrEOF
    THEN [fileInfo |-> NilFileInfo, err |-> ErrEOF, r |-> nx.r]
    ELSE IF nx.err # NoError
    THEN [fileInfo |-> NilFileInfo, err |-> nx.err, r |-> nx.r]
    ELSE IF nx.hdr.Typeflag # TypeReg
    THEN [fileInfo |-> [Header |-> nx.hdr, Content |-> NilContent],
          err |-> NoError, r |-> nx.r]
    ELSE IF FALSE
    THEN [fileInfo |-> NilFileInfo, err |-> ErrFileTooLarge, r |-> nx.r]
    ELSE LET rd == ReadAll(nx.r) IN
         IF rd.err # NoError
         THEN [fileInfo |-> NilFileInfo, err |-> rd.err, r |-> rd.r]
         ELSE [fileInfo |-> [Header |-> nx.hdr, Content |-> rd.buf],
               err |-> NoError, r |-> rd.r]

\* extractFileFromTar testing the size before the type flag
extractFileFromTar_SizeFirst(r) ==
    LET nx == TarNext(r) IN
    IF nx.err = ErrEOF
    THEN [fileInfo |-> NilFileInfo, err |-> ErrEOF, r |-> nx.r]
    ELSE IF nx.err # NoError
    THEN [fileInfo |-> NilFileInfo, err |-> nx.err, r |-> nx.r]
    ELSE IF nx.hdr.Size > MaxFileSize
    THEN [fileInfo |-> NilFileInfo, err |-> ErrFileTooLarge, r |-> nx.r]
    ELSE IF nx.hdr.Typeflag # TypeReg
    THEN [fileInfo |-> [Header |-> nx.hdr, Content |-> NilContent],
          err |-> NoError, r |-> nx.r]
    ELSE LET rd == ReadAll(nx.r) IN
         IF rd.err # NoError
         THEN [fileInfo |-> NilFileInfo, err |-> rd.err, r |-> rd.r]
         ELSE [fileInfo |-> [Header |-> nx.hdr, Content |-> rd.buf],
               err |-> NoError, r |-> rd.r]

extractFileFromTar(r) ==
    LET nx == TarNext(r) IN
    IF nx.err = ErrEOF
    THEN [fileInfo |-> NilFileInfo, err |-> ErrEOF, r |-> nx.r]
    ELSE IF nx.err # NoError
    THEN [fileInfo |-> NilFileInfo, err |-> nx.err, r |-> nx.r]
    ELSE IF nx.hdr.Typeflag # TypeReg
    THEN [fileInfo |-> [Header |-> nx.hdr, Content |-> NilContent],
          err |-> NoError, r |-> nx.r]
    ELSE IF nx.hdr.Size > MaxFileSize
    THEN [fileInfo |-> NilFileInfo, err |-> ErrFileTooLarge, r |-> nx.r]
    ELSE LET rd == ReadAll(nx.r) IN
         IF rd.err # NoError
         THEN [fileInfo |-> NilFileInfo, err |-> rd.err, r |-> rd.r]
         ELSE [fileInfo |-> [Header |-> nx.hdr, Content |-> rd.buf],
               err |-> NoError, r |-> rd.r]

(***************************************************************************)
(* extractAllFilesFromTar                                                  *)
(***************************************************************************)
EmptyMap == [n \in {} |-> NilFileInfo]

\* an insertion that keeps the value a key already has
MapPut_KeepFirst(m, k, v) ==
    [n \in (DOMAIN m) \cup {k} |-> IF n \in DOMAIN m THEN m[n] ELSE v]

\* a map made anew in every iteration
MapPut_Fresh(m, k, v) ==
    [n \in {k} |-> v]

\* files[k] = v
MapPut(m, k, v) ==
    [n \in (DOMAIN m) \cup {k} |-> IF n = k THEN v ELSE m[n]]

NotExtracted == [files |-> EmptyMap, isNil |-> TRUE, err |-> "not returned"]

\* a loop for which the end of the stream is one more error
ExtractEntry_EOFIsError ==
    /\ exPc = "loop"
    /\ LET x == extractFileFromTar(tr) IN
       /\ tr' = x.r
       /\ IF x.err # NoError
          THEN /\ extracted' = [files |-> EmptyMap, isNil |-> TRUE,
                                err |-> x.err]
               /\ exPc' = "returned"
               /\ UNCHANGED files
          ELSE /\ files' = MapPut(files, x.fileInfo.Header.Name, x.fileInfo)
               /\ UNCHANGED <<exPc, extracted>>
    /\ UNCHANGED pureVars
    /\ UNCHANGED lineVars
    /\ UNCHANGED readVars

\* the loop returning the map built so far along with the error
ExtractEntry_Partial ==
    /\ exPc = "loop"
    /\ LET x == extractFileFromTar(tr) IN
       /\ tr' = x.r
       /\ IF x.err = ErrEOF
          THEN /\ extracted' = [files |-> files, isNil |-> FALSE,
                                err |-> NoError]
               /\ exPc' = "returned"
               /\ UNCHANGED files
          ELSE IF x.err # NoError
          THEN /\ extracted' = [files |-> files, isNil |-> FALSE,
                                err |-> x.err]
               /\ exPc' = "returned"
               /\ UNCHANGED files
          ELSE /\ files' = MapPut(files, x.fileInfo.Header.Name, x.fileInfo)
               /\ UNCHANGED <<exPc, extracted>>
    /\ UNCHANGED pureVars
    /\ UNCHANGED lineVars
    /\ UNCHANGED readVars

\* one iteration of the loop, up to and including the return it may reach
ExtractEntry ==
    /\ exPc = "loop"
    /\ LET x == extractFileFromTar(tr) IN
       /\ tr' = x.r
       /\ IF x.err = ErrEOF
          THEN /\ extracted' = [files |-> files, isNil |-> FALSE,
                                err |-> NoError]
               /\ exPc' = "returned"
               /\ UNCHANGED files
          ELSE IF x.err # NoError
          THEN /\ extracted' = [files |-> EmptyMap, isNil |-> TRUE,
                                err |-> x.err]
               /\ exPc' = "returned"
               /\ UNCHANGED files
          ELSE /\ files' = MapPut(files, x.fileInfo.Header.Name, x.fileInfo)
               /\ UNCHANGED <<exPc, extracted>>
    /\ UNCHANGED pureVars
    /\ UNCHANGED lineVars
    /\ UNCHANGED readVars

IdlePure ==
    /\ path = <<>>
    /\ sanitized = NotCalled
    /\ name = <<>>
    /\ validated = NotCalled

IdleLine ==
    /\ rawLine = <<>>
    /\ logOptions = [Timestamps |-> FALSE]
    /\ processed = NotCalled

IdleExtract ==
    /\ tr = NoReader
    /\ files = EmptyMap
    /\ exPc = "idle"
    /\ extracted = NotExtracted

NoStream  == [state |-> "none", closes |-> 0, closeErr |-> FALSE,
              bytes |-> <<>>]
NullValue == [null |-> TRUE]
NoData    == [Stat |-> NullValue, File |-> NullValue, Files |-> NullValue,
              Logs |-> NullValue]
NoResp    == [errors |-> <<>>, warnings |-> <<>>, stateSet |-> FALSE,
              state |-> NoData]
NoScanner == [buf |-> <<>>, token |-> <<>>, err |-> NoError]

IdleRead ==
    /\ op = "none"
    /\ pc = "idle"
    /\ timestamps = "null"
    /\ calls = <<>>
    /\ stream = NoStream
    /\ data = NoData
    /\ resp = NoResp
    /\ scanner = NoScanner
    /\ logLines = <<>>

\* extractAllFilesFromTar called on the reader of an arbitrary stream
InitExtract ==
    /\ tr \in {NewReader(a) : a \in Archives(EntryNames, MaxEntries)}
    /\ files = EmptyMap
    /\ exPc = "loop"
    /\ extracted = NotExtracted
    /\ IdlePure
    /\ IdleLine
    /\ IdleRead

NextExtract == ExtractEntry

SpecExtract == InitExtract /\ [][NextExtract]_vars

\* extractAllFilesFromTar as sequential code: an iteration that can run
\* does run; called on the streams the read handlers are given
InitExtractFair ==
    /\ tr \in {NewReader(a) : a \in Archives({"a", "b"}, MaxReadEntries)}
    /\ files = EmptyMap
    /\ exPc = "loop"
    /\ extracted = NotExtracted
    /\ IdlePure
    /\ IdleLine
    /\ IdleRead

SpecExtractFair ==
    InitExtractFair /\ [][NextExtract]_vars /\ WF_vars(NextExtract)

(***************************************************************************)
(* Calls of the two pure functions on arbitrary arguments                  *)
(***************************************************************************)
InitSanitize ==
    /\ path \in Paths
    /\ sanitized = NotCalled
    /\ name = <<>>
    /\ validated = NotCalled
    /\ IdleLine
    /\ IdleExtract
    /\ IdleRead

CallSanitize ==
    /\ sanitized = NotCalled
    /\ sanitized' = sanitizePath(path)
    /\ UNCHANGED <<path, name, validated>>
    /\ UNCHANGED lineVars
    /\ UNCHANGED extractVars
    /\ UNCHANGED readVars

NextSanitize == CallSanitize

SpecSanitize == InitSanitize /\ [][NextSanitize]_vars

InitValidate ==
    /\ name \in Names
    /\ validated = NotCalled
    /\ path = <<>>
    /\ sanitized = NotCalled
    /\ IdleLine
    /\ IdleExtract
    /\ IdleRead

CallValidate ==
    /\ validated = NotCalled
    /\ validated' = validateContainerName(name)
    /\ UNCHANGED <<path, sanitized, name>>
    /\ UNCHANGED lineVars
    /\ UNCHANGED extractVars
    /\ UNCHANGED readVars

NextValidate == CallValidate

SpecValidate == InitValidate /\ [][NextValidate]_vars

(***************************************************************************)
(* The Read handlers of the three data sources.  The configuration of the  *)
(* data source (container, path, timestamps) is in name, path and          *)
(* timestamps; the transport answers a request with an error or with a     *)
(* stream of its choosing, and a Close of that stream may fail.            *)
(***************************************************************************)
ReadNames == {<<>>, <<"a">>, <<".", "a">>, <<"a", " ">>}
ReadPaths == {<<>>, <<"a">>, <<"/">>, <<".", ".", "/", "a">>,
              <<"a", "/", ".", ".", "/", "b">>}
ReadArchives == Archives({"a", "b"}, MaxReadEntries)

Diag(summary, names) == [summary |-> summary, names |-> names]

\* resp.Diagnostics.AddError, resp.Diagnostics.AddWarning, resp.State.Set
AddError(r, summary, names) ==
    [r EXCEPT !.errors = Append(@, Diag(summary, names))]
AddWarning(r, summary) ==
    [r EXCEPT !.warnings = Append(@, Diag(summary, <<>>))]
StateSet(r, d) == [r EXCEPT !.stateSet = TRUE, !.state = d]

Request(api, c, p) == [api |-> api, container |-> c, path |-> p]

OpenStream   == [state |-> "open", closes |-> 0, closeErr |-> FALSE,
                 bytes |-> <<>>]
Closed(st, e) ==
    [st EXCEPT !.state = "closed", !.closes = @ + 1, !.closeErr = e]

\* the stat the transport returns with the stream
StatValue(p) == [null |-> FALSE, name |-> p]

\* a range over the keys that stops after the first key
Orderings_One(S) ==
    {o \in [1..1 -> S] : TRUE}

\* the orders in which a range over the keys of a map can visit them
Orderings(S) ==
    {o \in [1..Cardinality(S) -> S] :
        \A i, j \in 1..Cardinality(S) : o[i] = o[j] => i = j}

(***************************************************************************)
(* FileDataSource.Read                                                     *)
(***************************************************************************)
FileRead_Validate ==
    /\ op = "file"
    /\ pc = "start"
    /\ LET v == validateContainerName(name) IN
       /\ validated' = v
       /\ IF v.ok
          THEN pc' = "sanitize" /\ UNCHANGED resp
          ELSE /\ resp' = AddError(resp, "Invalid Container Name", <<>>)
               /\ pc' = "done"
    /\ UNCHANGED <<path, sanitized, name>>
    /\ UNCHANGED lineVars
    /\ UNCHANGED extractVars
    /\ UNCHANGED <<op, timestamps, calls, stream, data, scanner, logLines>>

FileRead_Sanitize ==
    /\ op = "file"
    /\ pc = "sanitize"
    /\ LET sp == sanitizePath(path) IN
       /\ sanitized' = sp
       /\ IF sp.ok
          THEN pc' = "open" /\ UNCHANGED resp
          ELSE /\ resp' = AddError(resp, "Invalid File Path", <<>>)
               /\ pc' = "done"
    /\ UNCHANGED <<path, name, validated>>
    /\ UNCHANGED lineVars
    /\ UNCHANGED extractVars
    /\ UNCHANGED <<op, timestamps, calls, stream, data, scanner, logLines>>

\* CopyFromContainer with the sanitized path, the stat, tar.NewReader
FileRead_Open ==
    /\ op = "file"
    /\ pc = "open"
    /\ calls' = Append(calls,
                       Request("CopyFromContainer", name, sanitized.value))
    /\ \/ /\ resp' = AddError(resp, "Unable to Read File from Container",
                              <<>>)
          /\ pc' = "done"
          /\ UNCHANGED <<stream, data>>
          /\ UNCHANGED extractVars
       \/ \E a \in ReadArchives :
          /\ stream' = OpenStream
          /\ data' = [data EXCEPT !.Stat = StatValue(sanitized.value)]
          /\ tr' = NewReader(a)
          /\ files' = EmptyMap
          /\ exPc' = "loop"
          /\ extracted' = NotExtracted
          /\ pc' = "extract"
          /\ UNCHANGED resp
    /\ UNCHANGED pureVars
    /\ UNCHANGED lineVars
    /\ UNCHANGED <<op, timestamps, scanner, logLines>>

\* from the return of extractAllFilesFromTar to the end of the function body
FileRead_Finish ==
    /\ op = "file"
    /\ pc = "extract"
    /\ exPc = "returned"
    /\ LET allFiles == extracted.files
           n == Cardinality(DOMAIN allFiles)
       IN
       IF extracted.err # NoError
       THEN /\ resp' = AddError(resp, "Unable to Extract Files from Tar",
                                <<>>)
            /\ UNCHANGED data
       ELSE IF n = 0
       THEN /\ resp' = AddError(resp, "No Files Found in Tar", <<>>)
            /\ UNCHANGED data
       ELSE IF n > 1
       THEN /\ \E fileNames \in Orderings(DOMAIN allFiles) :
                  resp' = AddError(resp, "Multiple Files Found in Tar",
                                   fileNames)
            /\ UNCHANGED data
       ELSE LET fileInfo == allFiles[CHOOSE k \in DOMAIN allFiles : TRUE]
                d == [data EXCEPT !.File =
                        [null    |-> FALSE,
                         content |-> [null |-> FALSE,
                                      len  |-> fileInfo.Content.len],
                         name    |-> fileInfo.Header.Name,
                         size    |-> fileInfo.Header.Size]]
            IN  /\ data' = d
                /\ resp' = StateSet(resp, d)
    /\ pc' = "close"
    /\ UNCHANGED pureVars
    /\ UNCHANGED lineVars
    /\ UNCHANGED extractVars
    /\ UNCHANGED <<op, timestamps, calls, stream, scanner, logLines>>

\* the deferred function: a failed Close becomes a warning
FileRead_Close ==
    /\ op = "file"
    /\ pc = "close"
    /\ \E closeErr \in BOOLEAN :
          /\ stream' = Closed(stream, closeErr)
          /\ resp' = IF closeErr
                     THEN AddWarning(resp, "Resource Cleanup Warning")
                     ELSE resp
    /\ pc' = "done"
    /\ UNCHANGED pureVars
    /\ UNCHANGED lineVars
    /\ UNCHANGED extractVars
    /\ UNCHANGED <<op, timestamps, calls, data, scanner, logLines>>

(***************************************************************************)
(* FilesDataSource.Read                                                    *)
(***************************************************************************)
\* CopyFromContainer with the configured container and path as they are
FilesRead_Open ==
    /\ op = "files"
    /\ pc = "start"
    /\ calls' = Append(calls, Request("CopyFromContainer", name, path))
    /\ \/ /\ resp' = AddError(resp, "Unable to Read File from Container",
                              <<>>)
          /\ pc' = "done"
          /\ UNCHANGED <<stream, data>>
          /\ UNCHANGED extractVars
       \/ \E a \in ReadArchives :
          /\ stream' = OpenStream
          /\ data' = [data EXCEPT !.Stat = StatValue(path)]
          /\ tr' = NewReader(a)
          /\ files' = EmptyMap
          /\ exPc' = "loop"
          /\ extracted' = NotExtracted
          /\ pc' = "extract"
          /\ UNCHANGED resp
    /\ UNCHANGED pureVars
    /\ UNCHANGED lineVars
    /\ UNCHANGED <<op, timestamps, scanner, logLines>>

\* the attribute value made of one FileInfo
FileAttr(fileInfo) ==
    [content |-> IF ~fileInfo.Content.present
                 THEN NullValue
                 ELSE [null |-> FALSE, len |-> fileInfo.Content.len],
     name    |-> fileInfo.Header.Name,
     size    |-> fileInfo.Header.Size,
     type    |-> fileInfo.Header.Typeflag]

FilesRead_Finish ==
    /\ op = "files"
    /\ pc = "extract"
    /\ exPc = "returned"
    /\ IF extracted.err # NoError
       THEN /\ resp' = AddError(resp, "Unable to Extract Files from Tar",
                                <<>>)
            /\ UNCHANGED data
       ELSE LET allFiles == extracted.files
                d == [data EXCEPT !.Files =
                        [null  |-> FALSE,
                         elems |-> [k \in DOMAIN allFiles |->
                                       FileAttr(allFiles[k])]]]
            IN  /\ data' = d
                /\ resp' = StateSet(resp, d)
    /\ pc' = "close"
    /\ UNCHANGED pureVars
    /\ UNCHANGED lineVars
    /\ UNCHANGED extractVars
    /\ UNCHANGED <<op, timestamps, calls, stream, scanner, logLines>>

\* a return that leaves the stream open
FilesRead_Close_Forgotten ==
    /\ op = "files"
    /\ pc = "close"
    /\ pc' = "done"
    /\ UNCHANGED pureVars
    /\ UNCHANGED lineVars
    /\ UNCHANGED extractVars
    /\ UNCHANGED <<op, timestamps, calls, stream, data, resp, scanner,
                   logLines>>

\* defer file.Close(): the error of Close is dropped
FilesRead_Close ==
    /\ op = "files"
    /\ pc = "close"
    /\ \E closeErr \in BOOLEAN : stream' = Closed(stream, closeErr)
    /\ pc' = "done"
    /\ UNCHANGED pureVars
    /\ UNCHANGED lineVars
    /\ UNCHANGED extractVars
    /\ UNCHANGED <<op, timestamps, calls, data, resp, scanner, logLines>>

(***************************************************************************)
(* The log stream: bytes, cut into lines by a bufio.Scanner                *)
(***************************************************************************)
NewLine        == 10
CarriageReturn == 13

LogMarkers     == {0, 1, 2, 3}
LogLineLengths == {0, 1, 7, 8, 9, 38, 39, 41}

\* a line of n bytes: the stream marker, seven header bytes, then text
LogLine(m, n) ==
    [i \in 1..n |-> IF i = 1 THEN m ELSE IF i <= 8 THEN 0 ELSE 97 + (i % 3)]

LogLinesIn == {LogLine(m, n) : m \in LogMarkers, n \in LogLineLengths}

RECURSIVE JoinLines(_)
JoinLines(ls) ==
    IF ls = <<>> THEN <<>>
    ELSE ls[1] \o <<NewLine>> \o JoinLines(Tail(ls))

LogStreams == {JoinLines(ls) : ls \in UNION {[1..k -> LogLinesIn] :
                                                k \in 0..MaxLogLines}}

\* the frame the daemon writes for one write of a container without a TTY:
\* the stream type, three zero bytes, the size of the payload in big-endian
BigEndian32(n) ==
    <<(n \div 16777216) % 256, (n \div 65536) % 256, (n \div 256) % 256,
      n % 256>>

Frame(m, payload) == <<m, 0, 0, 0>> \o BigEndian32(Len(payload)) \o payload

TextLengths == {0, 2, 9, 10}

\* a text of n bytes that holds no newline
Text(n) == [i \in 1..n |-> 97 + (i % 3)]

\* frames whose payload is one line of text and its newline
LineFrames ==
    {Frame(m, Text(n) \o <<NewLine>>) : m \in {1, 2}, n \in TextLengths}

RECURSIVE Concat(_)
Concat(ss) == IF ss = <<>> THEN <<>> ELSE ss[1] \o Concat(Tail(ss))

FrameStreams == {Concat(fs) : fs \in UNION {[1..k -> LineFrames] :
                                               k \in 0..MaxLogLines}}

\* streams with a line as long as the scanner's buffer, or one byte less
LongLineStreams ==
    {JoinLines(<<LogLine(1, MaxScanTokenSize)>>),
     JoinLines(<<LogLine(2, MaxScanTokenSize - 1)>>),
     JoinLines(<<LogLine(1, 9), LogLine(2, MaxScanTokenSize)>>)}

\* a line that ends in a carriage return, a last line without a newline
EdgeStreams ==
    {LogLine(1, 9) \o <<CarriageReturn, NewLine>>,
     LogLine(1, 9) \o <<NewLine>> \o LogLine(2, 8)}

\* what ContainerLogs can return
ContainerLogs ==
    LogStreams \cup FrameStreams \cup LongLineStreams \cup EdgeStreams

ErrTooLong == "bufio.Scanner: token too long"

\* bufio.NewScanner
NewScanner(bytes) == [buf |-> bytes, token |-> <<>>, err |-> NoError]

\* the index of the first newline of b from i on, 0 if there is none
IndexNewLine(b, i) ==
    LET at == {j \in i..Len(b) : b[j] = NewLine}
    IN  IF at = {} THEN 0 ELSE CHOOSE j \in at : \A k \in at : j <= k

\* dropCR of bufio.ScanLines
DropCR(b) ==
    IF b # <<>> /\ b[Len(b)] = CarriageReturn
    THEN SubSeq(b, 1, Len(b) - 1)
    ELSE b

\* a scanner that gives up the bytes after the last newline
Scan_TerminatedOnly(sc) ==
    IF sc.buf = <<>> \/ sc.err # NoError
    THEN [more |-> FALSE, sc |-> [sc EXCEPT !.token = <<>>]]
    ELSE LET i       == IndexNewLine(sc.buf, 1)
             lineLen == IF i = 0 THEN Len(sc.buf) ELSE i - 1
             rest    == IF i = 0 THEN <<>>
                        ELSE SubSeq(sc.buf, i + 1, Len(sc.buf))
         IN  IF lineLen >= MaxScanTokenSize
             THEN [more |-> FALSE,
                   sc   |-> [sc EXCEPT !.token = <<>>, !.err = ErrTooLong]]
             ELSE IF i = 0
             THEN [more |-> FALSE,
                   sc   |-> [sc EXCEPT !.token = <<>>, !.buf = <<>>]]
             ELSE [more |-> TRUE,
                   sc   |-> [buf   |-> rest,
                             token |-> DropCR(SubSeq(sc.buf, 1, lineLen)),
                             err   |-> NoError]]

\* (*bufio.Scanner).Scan with the ScanLines split function and the default
\* buffer: a line that does not fit the buffer ends the scan with ErrTooLong
Scan(sc) ==
    IF sc.buf = <<>> \/ sc.err # NoError
    THEN [more |-> FALSE, sc |-> [sc EXCEPT !.token = <<>>]]
    ELSE LET i       == IndexNewLine(sc.buf, 1)
             lineLen == IF i = 0 THEN Len(sc.buf) ELSE i - 1
             rest    == IF i = 0 THEN <<>>
                        ELSE SubSeq(sc.buf, i + 1, Len(sc.buf))
         IN  IF lineLen >= MaxScanTokenSize
             THEN [more |-> FALSE,
                   sc   |-> [sc EXCEPT !.token = <<>>, !.err = ErrTooLong]]
             ELSE [more |-> TRUE,
                   sc   |-> [buf   |-> rest,
                             token |-> DropCR(SubSeq(sc.buf, 1, lineLen)),
                             err   |-> NoError]]

(***************************************************************************)
(* processLogLine                                                          *)
(***************************************************************************)
ErrEmptyLine      == "empty log line"
ErrStdin          == "unexpected stdin log line"
ErrUnknownType    == "unknown log line type"
ErrShortTimestamp == "log line too short for timestamp parsing"
ErrShortLine      == "log line too short"

NoLogLine == [stdout |-> FALSE, stderr |-> FALSE, message |-> <<>>,
              timestamp |-> NullValue]

StringValue(b) == [null |-> FALSE, value |-> b]

\* a decoder for a header of 9 bytes, a timestamp of 24 and one separator
processLogLine_NineByteHeader(line, withTimestamps) ==
    IF Len(line) = 0 THEN [value |-> NoLogLine, err |-> ErrEmptyLine]
    ELSE LET streamType == line[1] IN
    IF streamType = 0 THEN [value |-> NoLogLine, err |-> ErrStdin]
    ELSE IF streamType \notin {1, 2}
    THEN [value |-> NoLogLine, err |-> ErrUnknownType]
    ELSE IF withTimestamps
    THEN IF Len(line) < DockerLogHeaderSize + 1 + 24 + 1
         THEN [value |-> NoLogLine, err |-> ErrShortTimestamp]
         ELSE [value |->
                 [stdout    |-> streamType = 1,
                  stderr    |-> streamType = 2,
                  message   |-> SubSeq(line, DockerLogHeaderSize + 1 + 24 + 2,
                                       Len(line)),
                  timestamp |-> StringValue(
                                  SubSeq(line, DockerLogHeaderSize + 2,
                                         DockerLogHeaderSize + 1 + 24))],
               err |-> NoError]
    ELSE IF Len(line) < DockerLogHeaderSize
         THEN [value |-> NoLogLine, err |-> ErrShortLine]
         ELSE [value |->
                 [stdout    |-> streamType = 1,
                  stderr    |-> streamType = 2,
                  message   |-> SubSeq(line, DockerLogHeaderSize + 1,
                                       Len(line)),
                  timestamp |-> NullValue],
               err |-> NoError]

\* the length test of the branch without timestamps taken one byte too far
processLogLine_HeaderOnly(line, withTimestamps) ==
    IF Len(line) = 0 THEN [value |-> NoLogLine, err |-> ErrEmptyLine]
    ELSE LET streamType == line[1] IN
    IF streamType = 0 THEN [value |-> NoLogLine, err |-> ErrStdin]
    ELSE IF streamType \notin {1, 2}
    THEN [value |-> NoLogLine, err |-> ErrUnknownType]
    ELSE IF withTimestamps
    THEN IF Len(line) < DockerLogMessageStart
         THEN [value |-> NoLogLine, err |-> ErrShortTimestamp]
         ELSE [value |->
                 [stdout    |-> streamType = 1,
                  stderr    |-> streamType = 2,
                  message   |-> SubSeq(line, DockerLogMessageStart + 1,
                                       Len(line)),
                  timestamp |-> StringValue(
                                  SubSeq(line, DockerLogHeaderSize + 1,
                                         DockerLogTimestampEnd))],
               err |-> NoError]
    ELSE IF Len(line) <= DockerLogHeaderSize
         THEN [value |-> NoLogLine, err |-> ErrShortLine]
         ELSE [value |->
                 [stdout    |-> streamType = 1,
                  stderr    |-> streamType = 2,
                  message   |-> SubSeq(line, DockerLogHeaderSize + 1,
                                       Len(line)),
                  timestamp |-> NullValue],
               err |-> NoError]

\* the message taken right after the timestamp, the separator not skipped
processLogLine_NoSeparator(line, withTimestamps) ==
    IF Len(line) = 0 THEN [value |-> NoLogLine, err |-> ErrEmptyLine]
    ELSE LET streamType == line[1] IN
    IF streamType = 0 THEN [value |-> NoLogLine, err |-> ErrStdin]
    ELSE IF streamType \notin {1, 2}
    THEN [value |-> NoLogLine, err |-> ErrUnknownType]
    ELSE IF withTimestamps
    THEN IF Len(line) < DockerLogTimestampEnd
         THEN [value |-> NoLogLine, err |-> ErrShortTimestamp]
         ELSE [value |->
                 [stdout    |-> streamType = 1,
                  stderr    |-> streamType = 2,
                  message   |-> SubSeq(line, DockerLogTimestampEnd + 1,
                                       Len(line)),
                  timestamp |-> StringValue(
                                  SubSeq(line, DockerLogHeaderSize + 1,
                                         DockerLogTimestampEnd))],
               err |-> NoError]
    ELSE IF Len(line) < DockerLogHeaderSize
         THEN [value |-> NoLogLine, err |-> ErrShortLine]
         ELSE [value |->
                 [stdout    |-> streamType = 1,
                  stderr    |-> streamType = 2,
                  message   |-> SubSeq(line, DockerLogHeaderSize + 1,
                                       Len(line)),
                  timestamp |-> NullValue],
               err |-> NoError]

\* a switch without its default case: an unknown marker falls through
processLogLine_NoDefault(line, withTimestamps) ==
    IF Len(line) = 0 THEN [value |-> NoLogLine, err |-> ErrEmptyLine]
    ELSE LET streamType == line[1] IN
    IF streamType = 0 THEN [value |-> NoLogLine, err |-> ErrStdin]
    ELSE IF withTimestamps
    THEN IF Len(line) < DockerLogMessageStart
         THEN [value |-> NoLogLine, err |-> ErrShortTimestamp]
         ELSE [value |->
                 [stdout    |-> streamType = 1,
                  stderr    |-> streamType = 2,
                  message   |-> SubSeq(line, DockerLogMessageStart + 1,
                                       Len(line)),
                  timestamp |-> StringValue(
                                  SubSeq(line, DockerLogHeaderSize + 1,
                                         DockerLogTimestampEnd))],
               err |-> NoError]
    ELSE IF Len(line) < DockerLogHeaderSize
         THEN [value |-> NoLogLine, err |-> ErrShortLine]
         ELSE [value |->
                 [stdout    |-> streamType = 1,
                  stderr    |-> streamType = 2,
                  message   |-> SubSeq(line, DockerLogHeaderSize + 1,
                                       Len(line)),
                  timestamp |-> NullValue],
               err |-> NoError]

processLogLine(line, withTimestamps) ==
    IF Len(line) = 0 THEN [value |-> NoLogLine, err |-> ErrEmptyLine]
    ELSE LET streamType == line[1] IN
    IF streamType = 0 THEN [value |-> NoLogLine, err |-> ErrStdin]
    ELSE IF streamType \notin {1, 2}
    THEN [value |-> NoLogLine, err |-> ErrUnknownType]
    ELSE IF withTimestamps
    THEN IF Len(line) < DockerLogMessageStart
         THEN [value |-> NoLogLine, err |-> ErrShortTimestamp]
         ELSE [value |->
                 [stdout    |-> streamType = 1,
                  stderr    |-> streamType = 2,
                  message   |-> SubSeq(line, DockerLogMessageStart + 1,
                                       Len(line)),
                  timestamp |-> StringValue(
                                  SubSeq(line, DockerLogHeaderSize + 1,
                                         DockerLogTimestampEnd))],
               err |-> NoError]
    ELSE IF Len(line) < DockerLogHeaderSize
         THEN [value |-> NoLogLine, err |-> ErrShortLine]
         ELSE [value |->
                 [stdout    |-> streamType = 1,
                  stderr    |-> streamType = 2,
                  message   |-> SubSeq(line, DockerLogHeaderSize + 1,
                                       Len(line)),
                  timestamp |-> NullValue],
               err |-> NoError]

(***************************************************************************)
(* Calls of processLogLine on arbitrary lines                              *)
(***************************************************************************)
\* first bytes: stdin, stdout, stderr, and three values that are no marker
StreamTypes == {0, 1, 2, 3, 49, 255}

\* a line of n bytes whose every byte after the first tells its position
PositionalLine(m, n) == [i \in 1..n |-> IF i = 1 THEN m ELSE 32 + i]

\* 0x01, "12345678", "2024-01-01T00:00:00.000Z", " ", "hello"
TimestampedHello ==
    <<1>> \o <<49, 50, 51, 52, 53, 54, 55, 56>>
          \o <<50, 48, 50, 52, 45, 48, 49, 45, 48, 49, 84,
               48, 48, 58, 48, 48, 58, 48, 48, 46, 48, 48, 48, 90>>
          \o <<32>>
          \o <<104, 101, 108, 108, 111>>

RawLines ==
    {PositionalLine(m, n) : m \in StreamTypes, n \in 0..MaxLineLen}
        \cup {LogLine(m, n) : m \in StreamTypes, n \in LogLineLengths}
        \cup {TimestampedHello, [TimestampedHello EXCEPT ![1] = 3]}

InitLogLine ==
    /\ rawLine \in RawLines
    /\ logOptions \in [Timestamps : BOOLEAN]
    /\ processed = NotCalled
    /\ IdlePure
    /\ IdleExtract
    /\ IdleRead

CallProcessLogLine ==
    /\ processed = NotCalled
    /\ processed' = processLogLine(rawLine, logOptions.Timestamps)
    /\ UNCHANGED <<rawLine, logOptions>>
    /\ UNCHANGED pureVars
    /\ UNCHANGED extractVars
    /\ UNCHANGED readVars

NextLogLine == CallProcessLogLine

SpecLogLine == InitLogLine /\ [][NextLogLine]_vars

(***************************************************************************)
(* LogsDataSource.Read                                                     *)
(***************************************************************************)
\* the default of timestamps, then the validation of the container name
LogsRead_Validate ==
    /\ op = "logs"
    /\ pc = "start"
    /\ timestamps' = IF timestamps = "null" THEN "true" ELSE timestamps
    /\ LET v == validateContainerName(name) IN
       /\ validated' = v
       /\ IF v.ok
          THEN pc' = "open" /\ UNCHANGED resp
          ELSE /\ resp' = AddError(resp, "Invalid Container Name", <<>>)
               /\ pc' = "done"
    /\ UNCHANGED <<path, sanitized, name>>
    /\ UNCHANGED lineVars
    /\ UNCHANGED extractVars
    /\ UNCHANGED <<op, calls, stream, data, scanner, logLines>>

\* ContainerLogs, bufio.NewScanner
LogsRead_Open ==
    /\ op = "logs"
    /\ pc = "open"
    /\ calls' = Append(calls, Request("ContainerLogs", name, <<>>))
    /\ \/ /\ resp' = AddError(resp, "Unable to Read Container Logs", <<>>)
          /\ pc' = "done"
          /\ UNCHANGED <<stream, scanner>>
       \/ \E bytes \in ContainerLogs :
          /\ stream' = [OpenStream EXCEPT !.bytes = bytes]
          /\ scanner' = NewScanner(bytes)
          /\ pc' = "scan"
          /\ UNCHANGED resp
    /\ logLines' = <<>>
    /\ UNCHANGED pureVars
    /\ UNCHANGED lineVars
    /\ UNCHANGED extractVars
    /\ UNCHANGED <<op, timestamps, data>>

\* a loop that takes a timestamp from every line long enough to hold one
LogsRead_Scan_PerLineMode ==
    /\ op = "logs"
    /\ pc = "scan"
    /\ LET s == Scan(scanner) IN
       /\ scanner' = s.sc
       /\ IF ~s.more
          THEN /\ pc' = "finish"
               /\ UNCHANGED <<resp, logLines>>
          ELSE LET logLine == processLogLine(s.sc.token,
                                  Len(s.sc.token) >= DockerLogMessageStart)
               IN  IF logLine.err # NoError
                   THEN /\ resp' = AddError(resp,
                                            "Unable to Process Log Line",
                                            <<>>)
                        /\ pc' = "close"
                        /\ UNCHANGED logLines
                   ELSE /\ logLines' = Append(logLines, logLine.value)
                        /\ pc' = "scan"
                        /\ UNCHANGED resp
    /\ UNCHANGED pureVars
    /\ UNCHANGED lineVars
    /\ UNCHANGED extractVars
    /\ UNCHANGED <<op, timestamps, calls, stream, data>>

\* a loop that skips the line it cannot decode and goes on
LogsRead_Scan_SkipBadLine ==
    /\ op = "logs"
    /\ pc = "scan"
    /\ LET s == Scan(scanner) IN
       /\ scanner' = s.sc
       /\ IF ~s.more
          THEN /\ pc' = "finish"
               /\ UNCHANGED <<resp, logLines>>
          ELSE LET logLine == processLogLine(s.sc.token, timestamps = "true")
               IN  /\ logLines' = IF logLine.err # NoError THEN logLines
                                  ELSE Append(logLines, logLine.value)
                   /\ pc' = "scan"
                   /\ UNCHANGED resp
    /\ UNCHANGED pureVars
    /\ UNCHANGED lineVars
    /\ UNCHANGED extractVars
    /\ UNCHANGED <<op, timestamps, calls, stream, data>>

\* one test of scanner.Scan() and, if it is true, one body of the loop
LogsRead_Scan ==
    /\ op = "logs"
    /\ pc = "scan"
    /\ LET s == Scan(scanner) IN
       /\ scanner' = s.sc
       /\ IF ~s.more
          THEN /\ pc' = "finish"
               /\ UNCHANGED <<resp, logLines>>
          ELSE LET logLine == processLogLine(s.sc.token, timestamps = "true")
               IN  IF logLine.err # NoError
                   THEN /\ resp' = AddError(resp,
                                            "Unable to Process Log Line",
                                            <<>>)
                        /\ pc' = "close"
                        /\ UNCHANGED logLines
                   ELSE /\ logLines' = Append(logLines, logLine.value)
                        /\ pc' = "scan"
                        /\ UNCHANGED resp
    /\ UNCHANGED pureVars
    /\ UNCHANGED lineVars
    /\ UNCHANGED extractVars
    /\ UNCHANGED <<op, timestamps, calls, stream, data>>

\* from the test of scanner.Err() to the end of the function body
LogsRead_Finish ==
    /\ op = "logs"
    /\ pc = "finish"
    /\ IF scanner.err # NoError
       THEN /\ resp' = AddError(resp, "Unable to Read Container Logs", <<>>)
            /\ UNCHANGED data
       ELSE LET d == [data EXCEPT !.Logs =
                        [null |-> FALSE, elems |-> logLines]]
            IN  /\ data' = d
                /\ resp' = StateSet(resp, d)
    /\ pc' = "close"
    /\ UNCHANGED pureVars
    /\ UNCHANGED lineVars
    /\ UNCHANGED extractVars
    /\ UNCHANGED <<op, timestamps, calls, stream, scanner, logLines>>

\* the deferred function: a failed Close becomes a warning
LogsRead_Close ==
    /\ op = "logs"
    /\ pc = "close"
    /\ \E closeErr \in BOOLEAN :
          /\ stream' = Closed(stream, closeErr)
          /\ resp' = IF closeErr
                     THEN AddWarning(resp, "Resource Cleanup Warning")
                     ELSE resp
    /\ pc' = "done"
    /\ UNCHANGED pureVars
    /\ UNCHANGED lineVars
    /\ UNCHANGED extractVars
    /\ UNCHANGED <<op, timestamps, calls, data, scanner, logLines>>

(***************************************************************************)
(* One Read of one data source, on an arbitrary configuration              *)
(***************************************************************************)
Init ==
    /\ op \in {"file", "files", "logs"}
    /\ pc = "start"
    /\ name \in ReadNames
    /\ path \in (IF op = "logs" THEN {<<>>} ELSE ReadPaths)
    /\ timestamps \in (IF op = "logs" THEN {"null", "true", "false"}
                       ELSE {"null"})
    /\ sanitized = NotCalled
    /\ validated = NotCalled
    /\ calls = <<>>
    /\ stream = NoStream
    /\ data = NoData
    /\ resp = NoResp
    /\ scanner = NoScanner
    /\ logLines = <<>>
    /\ IdleLine
    /\ IdleExtract

Next ==
    \/ FileRead_Validate
    \/ FileRead_Sanitize
    \/ FileRead_Open
    \/ FileRead_Finish
    \/ FileRead_Close
    \/ FilesRead_Open
    \/ FilesRead_Finish
    \/ FilesRead_Close
    \/ ExtractEntry
    \/ LogsRead_Validate
    \/ LogsRead_Open
    \/ LogsRead_Scan
    \/ LogsRead_Finish
    \/ LogsRead_Close

Spec == Init /\ [][Next]_vars

(***************************************************************************)
(* C1: in every read operation the container identifier is validated, and  *)
(* for the two file reads the path is sanitized, before the transport is   *)
(* asked for a stream; when the identifier or the path is invalid the      *)
(* operation ends with an error and no stream is ever opened.              *)
(***************************************************************************)
IsFileRead == op \in {"file", "files"}

InvalidRequest ==
    \/ ~validateContainerName(name).ok
    \/ IsFileRead /\ ~sanitizePath(path).ok

C1_ValidatedBeforeOpen ==
    /\ calls # <<>> => (validated.ok /\ (IsFileRead => sanitized.ok))
    /\ InvalidRequest =>
          /\ calls = <<>>
          /\ stream.state = "none"
          /\ pc = "done" => resp.errors # <<>>

(***************************************************************************)
(* Vocabulary of the path claims: a path as the sequence of its            *)
(* '/'-separated segments, and its lexical normal form computed segment by *)
(* segment.                                                                *)
(***************************************************************************)
RECURSIVE SplitAt(_, _, _)
SplitAt(s, i, cur) ==
    IF i > Len(s) THEN <<cur>>
    ELSE IF s[i] = "/" THEN <<cur>> \o SplitAt(s, i + 1, <<>>)
    ELSE SplitAt(s, i + 1, Append(cur, s[i]))

Segments(s) == SplitAt(s, 1, <<>>)

DotDot == <<".", ".">>

HasParentSegment(s) == \E i \in 1..Len(Segments(s)) : Segments(s)[i] = DotDot

RECURSIVE ResolveSegments(_, _, _, _)
ResolveSegments(segs, i, stack, rooted) ==
    IF i > Len(segs) THEN stack
    ELSE IF segs[i] = <<>> \/ segs[i] = <<".">>
        THEN ResolveSegments(segs, i + 1, stack, rooted)
    ELSE IF segs[i] = DotDot
        THEN IF stack # <<>> /\ stack[Len(stack)] # DotDot
             THEN ResolveSegments(segs, i + 1,
                                  SubSeq(stack, 1, Len(stack) - 1), rooted)
             ELSE IF rooted
             THEN ResolveSegments(segs, i + 1, stack, rooted)
             ELSE ResolveSegments(segs, i + 1, Append(stack, DotDot), rooted)
    ELSE ResolveSegments(segs, i + 1, Append(stack, segs[i]), rooted)

RECURSIVE JoinSegments(_)
JoinSegments(segs) ==
    IF segs = <<>> THEN <<>>
    ELSE IF Len(segs) = 1 THEN segs[1]
    ELSE segs[1] \o <<"/">> \o JoinSegments(Tail(segs))

IsRooted(s) == s # <<>> /\ s[1] = "/"

NormalForm(s) ==
    LET joined == JoinSegments(ResolveSegments(Segments(s), 1, <<>>,
                                               IsRooted(s)))
    IN  IF IsRooted(s) THEN <<"/">> \o joined
        ELSE IF joined = <<>> THEN <<".">>
        ELSE joined

StripOneSeparator(s) == IF IsRooted(s) THEN Tail(s) ELSE s

SanitizeReturned == sanitized # NotCalled
ValidateReturned == validated # NotCalled

(***************************************************************************)
(* C2: sanitize fails with the path-traversal error for every non-empty    *)
(* input whose lexical normal form still has a parent-directory segment    *)
(* "..".                                                                   *)
(***************************************************************************)
C2_TraversalRejected ==
    (SanitizeReturned /\ path # <<>> /\ HasParentSegment(NormalForm(path)))
        => (~sanitized.ok /\ sanitized.err = ErrPathTraversal)

\* sanitize("../a") has returned the path-traversal error
C2_Witness ==
    /\ path = <<".", ".", "/", "a">>
    /\ SanitizeReturned
    /\ sanitized.err = ErrPathTraversal

(***************************************************************************)
(* C3: sanitize rejects every input that has a ".." segment, also when     *)
(* normalization cancels the segment against a preceding one ("a/../b").   *)
(***************************************************************************)
C3_EveryParentSegmentRejected ==
    (SanitizeReturned /\ HasParentSegment(path)) => ~sanitized.ok

(***************************************************************************)
(* C4: a successful result of sanitize is a strict descendant of the root: *)
(* it is never the empty string and never ".".                             *)
(***************************************************************************)
C4_StrictDescendant ==
    (SanitizeReturned /\ sanitized.ok)
        => (sanitized.value # <<>> /\ sanitized.value # <<".">>)

(***************************************************************************)
(* C5: the path returned by a successful sanitize is relative: it never    *)
(* begins with a separator, however many the input began with.             *)
(***************************************************************************)
C5_ResultRelative ==
    (SanitizeReturned /\ sanitized.ok) => ~IsRooted(sanitized.value)

\* sanitize("//a/b") has returned "a/b"
C5_Witness ==
    /\ path = <<"/", "/", "a", "/", "b">>
    /\ SanitizeReturned
    /\ sanitized.ok
    /\ sanitized.value = <<"a", "/", "b">>

(***************************************************************************)
(* C6: for every accepted input sanitize returns the lexical normal form   *)
(* of the input with one leading separator stripped; "a/b/c" is returned   *)
(* unchanged; the empty input fails with the empty-path error.             *)
(***************************************************************************)
C6_ReturnsNormalForm ==
    SanitizeReturned =>
        /\ sanitized.ok
              => sanitized.value = StripOneSeparator(NormalForm(path))
        /\ path = <<"a", "/", "b", "/", "c">>
              => (sanitized.ok /\ sanitized.value = path)
        /\ path = <<>>
              => (~sanitized.ok /\ sanitized.err = ErrEmptyPath)

\* sanitize("/a/./b/") has returned "a/b"
C6_Witness ==
    /\ path = <<"/", "a", "/", ".", "/", "b">>
    /\ SanitizeReturned
    /\ sanitized.ok
    /\ sanitized.value = <<"a", "/", "b">>

(***************************************************************************)
(* C7: validate(name) succeeds exactly when name is non-empty, begins with *)
(* an ASCII letter or digit and continues with ASCII letters, digits, '_', *)
(* '.' or '-'; the empty name fails with the empty-identifier error and    *)
(* every other rejected name with the invalid-format error.                *)
(***************************************************************************)
IsLetterOrDigit(c) == c \in {"a", "Z", "9"}

WellFormedName(n) ==
    /\ n # <<>>
    /\ IsLetterOrDigit(n[1])
    /\ \A i \in 2..Len(n) : IsLetterOrDigit(n[i]) \/ n[i] \in {"_", ".", "-"}

C7_ValidateGrammar ==
    ValidateReturned =>
        /\ validated.ok <=> WellFormedName(name)
        /\ name = <<>> => validated.err = ErrEmptyName
        /\ (name # <<>> /\ ~WellFormedName(name))
              => validated.err = ErrInvalidFormat

\* validate("a b") has returned the invalid-format error
C7_Witness ==
    /\ name = <<"a", " ", "Z">>
    /\ ValidateReturned
    /\ validated.err = ErrInvalidFormat

(***************************************************************************)
(* Vocabulary of the extraction claims                                     *)
(***************************************************************************)
ExtractReturned == exPc = "returned"

\* the entries whose header the reader has handed out
Consumed == 1..tr.pos

\* every header decodes, every entry is a regular file within the limit
\* and every body is complete
OnlyRegularFiles(archive) ==
    \A i \in 1..Len(archive) :
        /\ archive[i].hdrOk
        /\ archive[i].typeflag = TypeReg
        /\ archive[i].size <= MaxFileSize
        /\ archive[i].avail = archive[i].size

NamesOf(archive) == {archive[i].name : i \in 1..Len(archive)}

(***************************************************************************)
(* C8: a regular-file entry is rejected with the file-too-large error if   *)
(* and only if its declared size is strictly greater than 10 MiB; the      *)
(* rejection comes before any byte of its body is read, and the            *)
(* extraction then returns no map.                                         *)
(***************************************************************************)
RejectedTooLarge(i) ==
    /\ ExtractReturned
    /\ extracted.err = ErrFileTooLarge
    /\ i = tr.pos

C8_TooLargeRejected ==
    \A i \in Consumed :
        tr.entries[i].typeflag = TypeReg =>
            /\ (tr.entries[i].size > MaxFileSize) <=> RejectedTooLarge(i)
            /\ RejectedTooLarge(i)
                  => (tr.bodyRead[i] = 0 /\ extracted.isNil)

\* an entry of exactly 10 MiB was extracted, the next one, of 10 MiB + 1,
\* was rejected
C8_Witness ==
    /\ tr.pos = 2
    /\ tr.entries[1].typeflag = TypeReg
    /\ tr.entries[1].size = 10485760
    /\ tr.bodyRead[1] = 10485760
    /\ tr.entries[2].typeflag = TypeReg
    /\ tr.entries[2].size = 10485761
    /\ RejectedTooLarge(2)
    /\ extracted.isNil

(***************************************************************************)
(* C9: in every map returned by extract_all, a record that has content has *)
(* a content length equal to the size its header declares and at most the  *)
(* maximum file size.                                                      *)
(***************************************************************************)
C9_ContentLength ==
    (ExtractReturned /\ ~extracted.isNil) =>
        \A n \in DOMAIN extracted.files :
            LET fi == extracted.files[n] IN
            fi.Content.present =>
                /\ fi.Content.len = fi.Header.Size
                /\ fi.Content.len <= MaxFileSize

\* a map was returned that holds a file of exactly the maximum size
C9_Witness ==
    /\ ExtractReturned
    /\ ~extracted.isNil
    /\ \E n \in DOMAIN extracted.files :
          /\ extracted.files[n].Content.present
          /\ extracted.files[n].Content.len = MaxFileSize

(***************************************************************************)
(* C10, as stated: for an archive of regular files only, each within the   *)
(* size limit, extract_all returns a map with as many keys as the archive  *)
(* has entries.                                                            *)
(***************************************************************************)
C10_KeysEqualEntries ==
    (ExtractReturned /\ OnlyRegularFiles(tr.entries)) =>
        /\ ~extracted.isNil
        /\ Cardinality(DOMAIN extracted.files) = Len(tr.entries)

(***************************************************************************)
(* C10, amended: for such an archive extract_all returns a map whose keys  *)
(* are the distinct entry names of the archive, so the number of keys      *)
(* equals the number of entries exactly when no two entries share a name.  *)
(***************************************************************************)
C10_KeysAreDistinctNames ==
    (ExtractReturned /\ OnlyRegularFiles(tr.entries)) =>
        /\ ~extracted.isNil
        /\ extracted.err = NoError
        /\ DOMAIN extracted.files = NamesOf(tr.entries)
        /\ (Cardinality(DOMAIN extracted.files) = Len(tr.entries))
              <=> (\A i, j \in 1..Len(tr.entries) :
                      tr.entries[i].name = tr.entries[j].name => i = j)

\* three regular files, two of them named alike, gave a map of two keys
C10_Witness ==
    /\ ExtractReturned
    /\ OnlyRegularFiles(tr.entries)
    /\ Len(tr.entries) = 3
    /\ tr.entries[1].name = tr.entries[3].name
    /\ tr.entries[1].name # tr.entries[2].name
    /\ ~extracted.isNil
    /\ Cardinality(DOMAIN extracted.files) = 2

(***************************************************************************)
(* C11: an entry whose type flag is not that of a regular file is recorded *)
(* with no content and is never rejected by the size limit, whatever size  *)
(* its header declares.                                                    *)
(***************************************************************************)
C11_NonRegularNoContent ==
    /\ \A n \in DOMAIN files :
          files[n].Header.Typeflag # TypeReg => ~files[n].Content.present
    /\ \A i \in Consumed :
          tr.entries[i].typeflag # TypeReg =>
              /\ ~RejectedTooLarge(i)
              /\ tr.bodyRead[i] = 0
              /\ i = tr.pos =>
                    /\ tr.entries[i].name \in DOMAIN files
                    /\ files[tr.entries[i].name] =
                          [Header  |-> [Name     |-> tr.entries[i].name,
                                        Typeflag |-> tr.entries[i].typeflag,
                                        Size     |-> tr.entries[i].size],
                           Content |-> NilContent]

\* a directory whose header declares 10 MiB + 1 is in the returned map,
\* without content
C11_Witness ==
    /\ ExtractReturned
    /\ ~extracted.isNil
    /\ \E n \in DOMAIN extracted.files :
          /\ extracted.files[n].Header.Typeflag = TypeDir
          /\ extracted.files[n].Header.Size = 10485761
          /\ ~extracted.files[n].Content.present

(***************************************************************************)
(* C12: extract_all is all-or-nothing: if any entry fails (a header that   *)
(* does not decode, a regular file over the limit, a body cut short), at   *)
(* whatever position, the call returns the error and no map, also when     *)
(* earlier entries had been extracted.                                     *)
(***************************************************************************)
FailingEntry(e) ==
    \/ ~e.hdrOk
    \/ e.typeflag = TypeReg /\ (e.size > MaxFileSize \/ e.avail < e.size)

C12_AllOrNothing ==
    ExtractReturned =>
        /\ (extracted.err # NoError)
              <=> (\E i \in 1..Len(tr.entries) : FailingEntry(tr.entries[i]))
        /\ extracted.err # NoError
              => (extracted.isNil /\ DOMAIN extracted.files = {})

\* the third entry failed after two entries had been put into the map
C12_Witness ==
    /\ ExtractReturned
    /\ Len(tr.entries) = 3
    /\ FailingEntry(tr.entries[3])
    /\ Cardinality(DOMAIN files) = 2
    /\ extracted.err # NoError
    /\ extracted.isNil

(***************************************************************************)
(* Vocabulary of the claims on the single-file and multi-file reads        *)
(***************************************************************************)
\* the single-file read has got its map from extractAllFilesFromTar and
\* has run to the end of its body
FileReadExtracted ==
    /\ op = "file"
    /\ pc \in {"close", "done"}
    /\ exPc = "returned"

FilesReadExtracted ==
    /\ op = "files"
    /\ pc \in {"close", "done"}
    /\ exPc = "returned"

SequenceRange(q) == {q[i] : i \in 1..Len(q)}

(***************************************************************************)
(* C13: the single-file read fails with the not-found error when the       *)
(* extracted map is empty, with the ambiguous-target error naming every    *)
(* key of the map when the map has more than one key, and otherwise stores *)
(* the file record of the single entry together with the top-level stat.   *)
(***************************************************************************)
C13_SingleFileOutcome ==
    (FileReadExtracted /\ extracted.err = NoError) =>
        LET keys == DOMAIN extracted.files
            n    == Cardinality(keys)
        IN  /\ n = 0 =>
                  /\ Len(resp.errors) = 1
                  /\ resp.errors[1].summary = "No Files Found in Tar"
                  /\ ~resp.stateSet
            /\ n > 1 =>
                  /\ Len(resp.errors) = 1
                  /\ resp.errors[1].summary = "Multiple Files Found in Tar"
                  /\ SequenceRange(resp.errors[1].names) = keys
                  /\ Len(resp.errors[1].names) = n
                  /\ ~resp.stateSet
            /\ n = 1 =>
                  /\ resp.errors = <<>>
                  /\ resp.stateSet
                  /\ ~resp.state.Stat.null
                  /\ ~resp.state.File.null
                  /\ \A k \in keys :
                        /\ resp.state.File.name = extracted.files[k].Header.Name
                        /\ resp.state.File.size = extracted.files[k].Header.Size
                        /\ resp.state.File.content.len
                              = extracted.files[k].Content.len

\* a map of two keys ended the read with the error that names both
C13_Witness ==
    /\ FileReadExtracted
    /\ extracted.err = NoError
    /\ DOMAIN extracted.files = {"a", "b"}
    /\ Len(resp.errors) = 1
    /\ resp.errors[1].summary = "Multiple Files Found in Tar"
    /\ SequenceRange(resp.errors[1].names) = {"a", "b"}

(***************************************************************************)
(* C14: the single-file read succeeds only if the archive stream holds     *)
(* exactly one entry; an archive of no entry, or of two or more entries    *)
(* whatever their names, makes the read fail.                              *)
(***************************************************************************)
FileReadSucceeded ==
    /\ FileReadExtracted
    /\ resp.stateSet
    /\ resp.errors = <<>>

C14_ExactlyOneEntry ==
    FileReadSucceeded => Len(tr.entries) = 1

(***************************************************************************)
(* C15: in the state stored by the multi-file read and by the single-file  *)
(* read, the content of an entry is null exactly when the entry is not a   *)
(* regular file, so that a directory or a symbolic link differs from a     *)
(* regular file of zero length, whose content is present and empty.        *)
(***************************************************************************)
FilesReadSucceeded ==
    /\ FilesReadExtracted
    /\ resp.stateSet
    /\ resp.errors = <<>>

C15_NonRegularContentNull ==
    /\ FilesReadSucceeded =>
          \A k \in DOMAIN extracted.files :
              resp.state.Files.elems[k].content.null
                  <=> extracted.files[k].Header.Typeflag # TypeReg
    /\ FileReadSucceeded =>
          \A k \in DOMAIN extracted.files :
              resp.state.File.content.null
                  <=> extracted.files[k].Header.Typeflag # TypeReg

(***************************************************************************)
(* C16: when several entries of an archive have the same name, the map     *)
(* returned by extractAllFilesFromTar holds under that name the record of  *)
(* the last of them in archive order; the earlier ones are dropped and no  *)
(* error is returned on their account.                                     *)
(***************************************************************************)
IndicesOf(n) == {i \in 1..Len(tr.entries) : tr.entries[i].name = n}

LastIndexOf(n) == CHOOSE i \in IndicesOf(n) : \A j \in IndicesOf(n) : j <= i

RecordOf(e) ==
    [Header  |-> [Name |-> e.name, Typeflag |-> e.typeflag, Size |-> e.size],
     Content |-> IF e.typeflag = TypeReg
                 THEN [present |-> TRUE, len |-> e.size]
                 ELSE NilContent]

C16_LastEntryWins ==
    ExtractReturned =>
        /\ (\A i \in 1..Len(tr.entries) : ~FailingEntry(tr.entries[i]))
              => extracted.err = NoError
        /\ extracted.err = NoError =>
              \A n \in DOMAIN extracted.files :
                  /\ IndicesOf(n) # {}
                  /\ extracted.files[n] = RecordOf(tr.entries[LastIndexOf(n)])

\* "a" is first a directory, then a regular file of 10485760 bytes
C16_Witness ==
    /\ ExtractReturned
    /\ extracted.err = NoError
    /\ Cardinality(IndicesOf("a")) > 1
    /\ tr.entries[1].name = "a"
    /\ tr.entries[1].typeflag = TypeDir
    /\ "a" \in DOMAIN extracted.files
    /\ extracted.files["a"].Header.Typeflag = TypeReg
    /\ extracted.files["a"].Content.len = 10485760

(***************************************************************************)
(* Vocabulary of the claims on processLogLine                              *)
(***************************************************************************)
ProcessReturned == processed # NotCalled

RecordProduced == ProcessReturned /\ processed.err = NoError

TooShort == processed.err \in {ErrShortTimestamp, ErrShortLine}

\* bytes from..to of the line, counted from 0 as the source counts them
Bytes(from, to) == SubSeq(rawLine, from + 1, to + 1)

BytesFrom(from) == SubSeq(rawLine, from + 1, Len(rawLine))

(***************************************************************************)
(* C17: for a line that is not empty the first byte alone decides the      *)
(* origin: 0x00 fails with the stdin error and any byte other than 0x01    *)
(* and 0x02 with the unknown-type error, whatever the length and the rest  *)
(* of the line; 0x01 gives stdout set and stderr clear, 0x02 stderr set    *)
(* and stdout clear in the record produced, the only other outcome of      *)
(* these two markers being the too-short error; so every record produced   *)
(* has exactly one of stdout and stderr set.                               *)
(***************************************************************************)
C17_FirstByteDecides ==
    (ProcessReturned /\ Len(rawLine) > 0) =>
        /\ rawLine[1] = 0 => processed.err = ErrStdin
        /\ rawLine[1] \notin {0, 1, 2} => processed.err = ErrUnknownType
        /\ rawLine[1] \in {1, 2} => (RecordProduced \/ TooShort)
        /\ (rawLine[1] = 1 /\ RecordProduced) =>
              (processed.value.stdout /\ ~processed.value.stderr)
        /\ (rawLine[1] = 2 /\ RecordProduced) =>
              (processed.value.stderr /\ ~processed.value.stdout)
        /\ RecordProduced =>
              (processed.value.stdout # processed.value.stderr)

\* a line of 41 bytes that begins with 0xFF is refused for its first byte
C17_Witness ==
    /\ ProcessReturned
    /\ Len(rawLine) = 41
    /\ rawLine[1] = 255
    /\ processed.err = ErrUnknownType

\* the line under study has a marker that processLogLine accepts
ValidMarker == Len(rawLine) > 0 /\ rawLine[1] \in {1, 2}

IsPositional == rawLine = PositionalLine(rawLine[1], Len(rawLine))

(***************************************************************************)
(* C18: with timestamps, a line with a valid marker fails with the         *)
(* too-short error exactly when it has fewer than 39 bytes; otherwise the  *)
(* timestamp of the record is bytes 8..29 of the line (22 bytes), bytes    *)
(* 30..38 appear nowhere in the record, and the message is the line from   *)
(* byte 39 on, empty for a line of exactly 39 bytes.                       *)
(***************************************************************************)
C18_TimestampLayout ==
    (ProcessReturned /\ ValidMarker /\ logOptions.Timestamps) =>
        /\ TooShort <=> Len(rawLine) < 39
        /\ TooShort => processed.err = ErrShortTimestamp
        /\ Len(rawLine) >= 39 =>
              /\ RecordProduced
              /\ ~processed.value.timestamp.null
              /\ processed.value.timestamp.value = Bytes(8, 29)
              /\ Len(processed.value.timestamp.value) = 22
              /\ processed.value.message = BytesFrom(39)
              /\ Len(processed.value.message) = Len(rawLine) - 39
              /\ IsPositional =>
                    \A i \in 30..38 :
                        /\ rawLine[i + 1] \notin
                              SequenceRange(processed.value.message)
                        /\ rawLine[i + 1] \notin
                              SequenceRange(processed.value.timestamp.value)

\* a line of 41 bytes gives a message of its last two bytes
C18_Witness ==
    /\ RecordProduced
    /\ logOptions.Timestamps
    /\ IsPositional
    /\ Len(rawLine) = 41
    /\ processed.value.message = <<72, 73>>
    /\ processed.value.timestamp.value[1] = 41
    /\ processed.value.timestamp.value[22] = 62

(***************************************************************************)
(* C19: without timestamps, a line with a valid marker fails with the      *)
(* too-short error exactly when it has fewer than 8 bytes; otherwise the   *)
(* message is the line from byte 8 on, empty for a line of exactly 8       *)
(* bytes, and the record has no timestamp.                                 *)
(***************************************************************************)
C19_PlainLayout ==
    (ProcessReturned /\ ValidMarker /\ ~logOptions.Timestamps) =>
        /\ TooShort <=> Len(rawLine) < 8
        /\ TooShort => processed.err = ErrShortLine
        /\ Len(rawLine) >= 8 =>
              /\ RecordProduced
              /\ processed.value.message = BytesFrom(8)
              /\ Len(processed.value.message) = Len(rawLine) - 8
              /\ processed.value.timestamp.null

\* a line of exactly 8 bytes gives a record with an empty message
C19_Witness ==
    /\ RecordProduced
    /\ ~logOptions.Timestamps
    /\ Len(rawLine) = 8
    /\ rawLine[1] = 2
    /\ processed.value.stderr
    /\ processed.value.message = <<>>
    /\ processed.value.timestamp.null

\* "2024-01-01T00:00:00.000Z"
ExampleTimestamp ==
    <<50, 48, 50, 52, 45, 48, 49, 45, 48, 49, 84,
      48, 48, 58, 48, 48, 58, 48, 48, 46, 48, 48, 48, 90>>

\* "hello"
ExampleMessage == <<104, 101, 108, 108, 111>>

\* "82024-01-01T00:00:00.0": bytes 8..29 of the example line
ExampleBytes8To29 ==
    <<56, 50, 48, 50, 52, 45, 48, 49, 45, 48, 49, 84,
      48, 48, 58, 48, 48, 58, 48, 48, 46, 48>>

ExampleProcessed ==
    /\ ProcessReturned
    /\ rawLine = TimestampedHello
    /\ logOptions.Timestamps

(***************************************************************************)
(* C20, as stated: with timestamps, the line 0x01, "12345678",             *)
(* "2024-01-01T00:00:00.000Z", " ", "hello" gives one stdout record with   *)
(* timestamp "2024-01-01T00:00:00.000Z" and message "hello".               *)
(***************************************************************************)
C20_ExampleAsStated ==
    ExampleProcessed =>
        /\ RecordProduced
        /\ processed.value.stdout
        /\ ~processed.value.stderr
        /\ processed.value.timestamp = StringValue(ExampleTimestamp)
        /\ processed.value.message = ExampleMessage

(***************************************************************************)
(* C20, amended: that line has exactly 39 bytes; with timestamps it gives  *)
(* one stdout record whose timestamp is bytes 8..29 of the line,           *)
(* "82024-01-01T00:00:00.0", and whose message is empty.                   *)
(***************************************************************************)
C20_ExampleAsDecoded ==
    ExampleProcessed =>
        /\ Len(rawLine) = 39
        /\ RecordProduced
        /\ processed.value.stdout
        /\ ~processed.value.stderr
        /\ processed.value.timestamp = StringValue(ExampleBytes8To29)
        /\ processed.value.message = <<>>

C20_Witness ==
    /\ ExampleProcessed
    /\ RecordProduced
    /\ processed.value.stdout
    /\ processed.value.timestamp.value[1] = 56
    /\ Len(processed.value.message) = 0

(***************************************************************************)
(* Vocabulary of the claims on the logs read                               *)
(***************************************************************************)
\* the logs read got a stream and is past its loop
LogsReadEnded ==
    /\ op = "logs"
    /\ pc \in {"close", "done"}
    /\ stream.state # "none"

FirstNewLineOf(b) ==
    LET at == {j \in 1..Len(b) : b[j] = 10}
    IN  IF at = {} THEN 0 ELSE CHOOSE j \in at : \A k \in at : j <= k

WithoutCarriageReturn(b) ==
    IF Len(b) > 0 /\ b[Len(b)] = 13 THEN SubSeq(b, 1, Len(b) - 1) ELSE b

\* the newline-delimited lines of a byte stream, in stream order
RECURSIVE StreamLines(_)
StreamLines(b) ==
    IF b = <<>> THEN <<>>
    ELSE LET i == FirstNewLineOf(b) IN
         IF i = 0 THEN <<WithoutCarriageReturn(b)>>
         ELSE <<WithoutCarriageReturn(SubSeq(b, 1, i - 1))>>
                  \o StreamLines(SubSeq(b, i + 1, Len(b)))

TimestampsEnabled == timestamps = "true"

MinimumLength == IF TimestampsEnabled THEN 39 ELSE 8

\* empty, a bad marker, or too short for the mode of the call
Malformed(l) ==
    \/ Len(l) = 0
    \/ l[1] \notin {1, 2}
    \/ Len(l) < MinimumLength

\* the line does not fit the buffer of the scanner
TooLongToScan(l) == Len(l) >= 65536

MalformedIndices(ls) == {i \in 1..Len(ls) : Malformed(ls[i])}

FirstMalformed(ls) ==
    CHOOSE i \in MalformedIndices(ls) : \A j \in MalformedIndices(ls) : i <= j

(***************************************************************************)
(* C21: the decoding of the log stream is fail-fast and all-or-nothing:    *)
(* the first malformed line in stream order (empty, bad marker, too short) *)
(* ends the logs read with the line-processing error, no line after it is  *)
(* taken from the scanner, and no record decoded from an earlier line is   *)
(* stored.                                                                 *)
(***************************************************************************)
C21_FailFast ==
    LET ls == StreamLines(stream.bytes) IN
    (LogsReadEnded /\ MalformedIndices(ls) # {}) =>
        LET k == FirstMalformed(ls) IN
        /\ Len(resp.errors) = 1
        /\ ~resp.stateSet
        /\ resp.state.Logs.null
        /\ data.Logs.null
        /\ (\A i \in 1..k : ~TooLongToScan(ls[i])) =>
              /\ resp.errors[1].summary = "Unable to Process Log Line"
              /\ Len(logLines) = k - 1
              /\ StreamLines(scanner.buf) = SubSeq(ls, k + 1, Len(ls))

\* the second of three lines is malformed: one record decoded and dropped,
\* the third line left in the scanner
C21_Witness ==
    /\ LogsReadEnded
    /\ Len(StreamLines(stream.bytes)) = 3
    /\ ~Malformed(StreamLines(stream.bytes)[1])
    /\ Malformed(StreamLines(stream.bytes)[2])
    /\ Len(logLines) = 1
    /\ Len(StreamLines(scanner.buf)) = 1
    /\ Len(resp.errors) = 1
    /\ resp.errors[1].summary = "Unable to Process Log Line"
    /\ ~resp.stateSet

\* the logs read stored its list
LogsReadSucceeded ==
    /\ op = "logs"
    /\ resp.stateSet
    /\ resp.errors = <<>>

(***************************************************************************)
(* C22: the presence of a timestamp is uniform in one decoded sequence:    *)
(* every record decoded so far, and every record of the stored list, has   *)
(* a timestamp when the call runs with timestamps and has none when it     *)
(* runs without; the mode is that of the call, not of the line.            *)
(***************************************************************************)
C22_UniformTimestamps ==
    op = "logs" =>
        /\ \A i \in 1..Len(logLines) :
              logLines[i].timestamp.null <=> ~TimestampsEnabled
        /\ LogsReadSucceeded =>
              /\ resp.state.Logs.elems = logLines
              /\ \A i, j \in 1..Len(resp.state.Logs.elems) :
                    resp.state.Logs.elems[i].timestamp.null
                        = resp.state.Logs.elems[j].timestamp.null

\* two lines of different lengths, both stored without a timestamp
C22_Witness ==
    /\ LogsReadSucceeded
    /\ ~TimestampsEnabled
    /\ Len(resp.state.Logs.elems) = 2
    /\ Len(resp.state.Logs.elems[1].message) = 1
    /\ Len(resp.state.Logs.elems[2].message) = 33
    /\ resp.state.Logs.elems[1].timestamp.null
    /\ resp.state.Logs.elems[2].timestamp.null

\* the transport was asked once and returned a stream
StreamReturned ==
    /\ Len(calls) = 1
    /\ stream.state # "none"

ReadReturned == pc = "done"

LastErrorIs(summary) ==
    /\ resp.errors # <<>>
    /\ resp.errors[Len(resp.errors)].summary = summary

(***************************************************************************)
(* C23: in every read, once the transport has returned a stream, the       *)
(* stream is closed exactly once before the read returns, on every exit    *)
(* path: success, extraction or decoding error, file not found, several    *)
(* files found.  It is never closed twice, and never closed unopened.      *)
(***************************************************************************)
C23_ClosedExactlyOnce ==
    /\ stream.closes <= 1
    /\ stream.state = "closed" <=> stream.closes = 1
    /\ stream.state # "none" => Len(calls) = 1
    /\ (ReadReturned /\ StreamReturned) =>
          /\ stream.state = "closed"
          /\ stream.closes = 1
    /\ (ReadReturned /\ ~StreamReturned) =>
          /\ stream = NoStream
          /\ resp.errors # <<>>

\* the multi-file read returned after an extraction error, stream closed
C23_Witness ==
    /\ ReadReturned
    /\ StreamReturned
    /\ op = "files"
    /\ LastErrorIs("Unable to Extract Files from Tar")
    /\ stream.state = "closed"
    /\ stream.closes = 1

(***************************************************************************)
(* C24: in every read (single-file, multi-file, logs) a failure to close   *)
(* the stream is reported as a warning, never as an error and never        *)
(* dropped, and it leaves a result that was already stored as it was.      *)
(***************************************************************************)
C24_CloseFailureWarned ==
    (ReadReturned /\ stream.state = "closed" /\ stream.closeErr) =>
        /\ \E i \in 1..Len(resp.warnings) :
              resp.warnings[i].summary = "Resource Cleanup Warning"
        /\ \A i \in 1..Len(resp.errors) :
              resp.errors[i].summary # "Resource Cleanup Warning"
        /\ resp.stateSet => resp.state = data

(***************************************************************************)
(* C25: extractAllFilesFromTar terminates on every finite archive stream:  *)
(* it takes the entries one by one in archive order, one entry per         *)
(* iteration of its loop, and at the end of the stream it returns the map  *)
(* built so far (the empty map for an archive of no entry) and no error;   *)
(* the end of the stream is never returned as an error.                    *)
(***************************************************************************)
EndOfStreamReached ==
    /\ ExtractReturned
    /\ \A i \in 1..Len(tr.entries) : ~FailingEntry(tr.entries[i])

C25_EndOfStream ==
    /\ extracted.err # ErrEOF
    /\ tr.pos <= Len(tr.entries)
    /\ EndOfStreamReached =>
          /\ extracted.err = NoError
          /\ ~extracted.isNil
          /\ extracted.files = files
          /\ tr.pos = Len(tr.entries)
          /\ Len(tr.entries) = 0 => extracted.files = EmptyMap

\* an iteration takes the next entry of the stream or is the last one
C25_OneEntryPerIteration ==
    exPc = "loop" =>
        \/ exPc' = "loop" /\ tr'.pos = tr.pos + 1
                          /\ tr'.entries = tr.entries
        \/ exPc' = "returned"
              /\ \/ tr.pos = Len(tr.entries) /\ tr'.pos = tr.pos
                 \/ FailingEntry(tr.entries[tr.pos + 1])

C25_Terminates ==
    /\ <>ExtractReturned
    /\ []C25_EndOfStream
    /\ [][C25_OneEntryPerIteration]_vars

\* two entries taken, then the return at the end of the stream
C25_Witness ==
    /\ EndOfStreamReached
    /\ Len(tr.entries) = 2
    /\ tr.pos = 2
    /\ extracted.err = NoError
    /\ Cardinality(DOMAIN extracted.files) = 2

\* the record a well-formed line stands for in the mode of the call
RecordOfLine(l) ==
    [stdout    |-> l[1] = 1,
     stderr    |-> l[1] = 2,
     message   |-> SubSeq(l, MinimumLength + 1, Len(l)),
     timestamp |-> IF TimestampsEnabled
                   THEN [null |-> FALSE, value |-> SubSeq(l, 9, 30)]
                   ELSE [null |-> TRUE]]

(***************************************************************************)
(* C26: when the logs read succeeds, the stored list has exactly one       *)
(* record for each newline-delimited line of the stream, in stream order   *)
(* (a line being what lies between newlines, less a final carriage         *)
(* return): the i-th record is the decoding of the i-th line, and the      *)
(* stream was read to its end.                                             *)
(***************************************************************************)
C26_OneRecordPerLine ==
    LogsReadSucceeded =>
        LET ls    == StreamLines(stream.bytes)
            elems == resp.state.Logs.elems
        IN  /\ ~resp.state.Logs.null
            /\ Len(elems) = Len(ls)
            /\ \A i \in 1..Len(ls) :
                  /\ ~Malformed(ls[i])
                  /\ elems[i] = RecordOfLine(ls[i])
            /\ scanner.buf = <<>>

\* a stdout line then a stderr line that no newline ends, stored in order
C26_Witness ==
    /\ LogsReadSucceeded
    /\ ~TimestampsEnabled
    /\ stream.bytes = LogLine(1, 9) \o <<10>> \o LogLine(2, 8)
    /\ Len(resp.state.Logs.elems) = 2
    /\ resp.state.Logs.elems[1].stdout
    /\ Len(resp.state.Logs.elems[1].message) = 1
    /\ resp.state.Logs.elems[2].stderr
    /\ resp.state.Logs.elems[2].message = <<>>

\* the payload length a frame header announces, bytes 4..7 in big-endian
AnnouncedLength(b) ==
    b[5] * 16777216 + b[6] * 65536 + b[7] * 256 + b[8]

\* b is a concatenation of frames: a header of 8 bytes (marker 0x01 or
\* 0x02, three zero bytes, the payload length) and a payload that is one
\* line of text (no control byte) ended by its newline
RECURSIVE IsFrameStream(_)
IsFrameStream(b) ==
    \/ b = <<>>
    \/ /\ Len(b) >= 8
       /\ b[1] \in {1, 2}
       /\ b[2] = 0 /\ b[3] = 0 /\ b[4] = 0
       /\ LET n == AnnouncedLength(b) IN
          /\ n >= 1
          /\ Len(b) >= 8 + n
          /\ b[8 + n] = 10
          /\ \A i \in 9..(7 + n) : b[i] >= 32
          /\ IsFrameStream(SubSeq(b, 9 + n, Len(b)))

RECURSIVE FramesOf(_)
FramesOf(b) ==
    IF b = <<>> THEN <<>>
    ELSE LET n == AnnouncedLength(b) IN
         <<[marker |-> b[1], text |-> SubSeq(b, 9, 7 + n)]>>
             \o FramesOf(SubSeq(b, 9 + n, Len(b)))

(***************************************************************************)
(* C27: for a stream that is a concatenation of frames (header of 8 bytes  *)
(* with the marker, three zero bytes and the payload length in big-endian, *)
(* then a payload that is one line ended by a newline), the logs read      *)
(* without timestamps succeeds and stores one record per frame whose       *)
(* message is the payload less its newline, whatever the payload length,   *)
(* 10 (length byte 0x0A) included.                                         *)
(***************************************************************************)
C27_OneRecordPerFrame ==
    (op = "logs" /\ ReadReturned /\ StreamReturned /\ timestamps = "false"
        /\ IsFrameStream(stream.bytes)) =>
        LET frames == FramesOf(stream.bytes) IN
        /\ LogsReadSucceeded
        /\ Len(resp.state.Logs.elems) = Len(frames)
        /\ \A i \in 1..Len(frames) :
              /\ resp.state.Logs.elems[i].message = frames[i].text
              /\ resp.state.Logs.elems[i].stdout = (frames[i].marker = 1)
              /\ resp.state.Logs.elems[i].stderr = (frames[i].marker = 2)

\* the distinct names of the entries, each at its first place in the archive
RECURSIVE NamesInArchiveOrder(_, _)
NamesInArchiveOrder(entries, seen) ==
    IF entries = <<>> THEN <<>>
    ELSE IF entries[1].name \in seen
    THEN NamesInArchiveOrder(Tail(entries), seen)
    ELSE <<entries[1].name>>
             \o NamesInArchiveOrder(Tail(entries), seen \cup {entries[1].name})

(***************************************************************************)
(* C28: the single-file read is deterministic: its outcome is a function   *)
(* of the archive stream, and the error for several files lists the names  *)
(* in archive order, so that two runs on one stream list them alike.       *)
(***************************************************************************)
C28_NamesInArchiveOrder ==
    (FileReadExtracted /\ LastErrorIs("Multiple Files Found in Tar")) =>
        resp.errors[Len(resp.errors)].names
            = NamesInArchiveOrder(tr.entries, {})

(***************************************************************************)
(* C29: the logs read succeeds for every stream all of whose lines are     *)
(* well formed one by one (not empty, marker 0x01 or 0x02, the minimum     *)
(* length of the mode), however long the message of a line is, lines       *)
(* beyond the 64 KiB of the scanner's default token limit included.        *)
(***************************************************************************)
C29_LongLinesAccepted ==
    (op = "logs" /\ StreamReturned
        /\ \A i \in 1..Len(StreamLines(stream.bytes)) :
              ~Malformed(StreamLines(stream.bytes)[i])) =>
        /\ scanner.err = NoError
        /\ resp.errors = <<>>
        /\ ReadReturned => LogsReadSucceeded

====
